---- MODULE Spec2Model ----
(***************************************************************************)
(* Model of the EVM price pusher (pyth-evm-price-pusher/src/pusher.ts):    *)
(* the scheduler loop Pusher.start, the submission pipeline                *)
(* Pusher.pushUpdates with its transactionHash / error handlers, and the   *)
(* staleness evaluator Pusher.shouldUpdate.                                *)
(***************************************************************************)
EXTENDS Integers, Sequences, FiniteSets, TLC

VARIABLES
    priceConfigs,   \* Pusher.priceConfigs: the configured feeds, in order
    source,         \* sourcePriceListener: feed id -> PriceInfo | undefined
    target,         \* targetPriceListener: feed id -> PriceInfo | undefined
    loop,           \* where start() is: "batch" (top of the for(;;) body) or "sleep"
    tick,           \* number of iterations of the for(;;) loop started so far
    pipe,           \* tick -> the pushUpdates(...) call made in that iteration
    process         \* "running", or "exited" once the host has killed the process

vars == <<priceConfigs, source, target, loop, tick, pipe, process>>

----------------------------------------------------------------------------
(* Bounds of the model.                                                    *)

\* iterations of the for(;;) loop of start() that are explored
MaxTicks == 2
\* publish times the listeners deliver while the scheduler runs: 0..MaxTime
MaxTime == 1
\* publish times of the listener snapshots one batcher pass is applied to
MaxPublishTime == 2
\* publish times of the observations shouldUpdate is evaluated on
MaxEvalTime == 3
\* time-difference thresholds shouldUpdate is evaluated with: 0..MaxThreshold
MaxThreshold == 2

----------------------------------------------------------------------------
(* Data.                                                                   *)

\* `PriceInfo | undefined`: the value of an absent observation
undefined == [undefined |-> TRUE]

FeedA == [alias |-> "A/USD", id |-> "aa",
          timeDifference |-> 1, priceDeviation |-> 100, confidenceRatio |-> 10]
FeedB == [alias |-> "B/USD", id |-> "bb",
          timeDifference |-> 2, priceDeviation |-> 50, confidenceRatio |-> 10]

FeedIds == {"aa", "bb"}

\* ids of the configured feeds (the listeners are subscribed to exactly these)
ConfiguredIds == {priceConfigs[i].id : i \in DOMAIN priceConfigs}

\* PriceInfo: price and conf are decimal strings, publishTime a number
PriceInfo(t, p, c) == [publishTime |-> t, price |-> p, conf |-> c]

\* observations the listeners deliver while the scheduler runs
SchedInfos == {PriceInfo(t, <<"1">>, <<"0">>) : t \in 0..MaxTime}

\* observations of the snapshots one batcher pass is applied to
BatchInfos == {PriceInfo(t, p, <<"0">>) : t \in 0..MaxPublishTime, p \in {<<"1">>, <<"2">>}}

\* the substrings of err.message the error handler looks for
NoFreshPrices == "no prices in the submitted batch have fresh prices, so this update will have no effect"
WrongNonce == "the tx doesn't have the correct nonce."
NoFunds == "sender doesn't have enough funds to send tx."
Markers == {NoFreshPrices, WrongNonce, NoFunds}

\* an error message, as the set of the known substrings it contains
Messages == SUBSET Markers

\* err.message.includes(marker)
Includes(message, marker) == marker \in message

----------------------------------------------------------------------------
(* Number(s) of a decimal string s, given as a sequence of characters.     *)

DigitVal(c) ==
    CASE c = "0" -> 0 [] c = "1" -> 1 [] c = "2" -> 2 [] c = "3" -> 3 [] c = "4" -> 4
      [] c = "5" -> 5 [] c = "6" -> 6 [] c = "7" -> 7 [] c = "8" -> 8 [] c = "9" -> 9

RECURSIVE Digits(_)
Digits(s) == IF s = <<>> THEN 0 ELSE 10 * Digits(SubSeq(s, 1, Len(s) - 1)) + DigitVal(s[Len(s)])

Number(s) == IF s # <<>> /\ s[1] = "-" THEN 0 - Digits(Tail(s)) ELSE Digits(s)

Abs(x) == IF x < 0 THEN 0 - x ELSE x

----------------------------------------------------------------------------
(* Pusher.shouldUpdate.                                                    *)

\* (num / den) * 100 >= threshold for num >= 0 as IEEE arithmetic decides it:
\* x/0 is Infinity for x > 0 and NaN for x = 0 (NaN >= t is false); a negative
\* denominator gives a quotient <= 0.  On the small integers of the model the
\* quotients that reach a threshold are exact.
PctAtLeast(num, den, threshold) ==
    IF den = 0 THEN num > 0
    ELSE IF den > 0 THEN num * 100 >= threshold * den
    ELSE num * 100 <= threshold * den

\* Math.abs((conf / price) * 100) >= threshold
AbsPctAtLeast(num, den, threshold) ==
    IF den = 0 THEN num # 0
    ELSE Abs(num) * 100 >= threshold * Abs(den)

\* the last step of shouldUpdate, for the variants below
ThresholdsReached(priceConfig, sourceLatestPrice, targetLatestPrice) ==
    LET timeDifference == sourceLatestPrice.publishTime - targetLatestPrice.publishTime
        priceDiff == Abs(Number(sourceLatestPrice.price) - Number(targetLatestPrice.price))
    IN  \/ timeDifference >= priceConfig.timeDifference
        \/ PctAtLeast(priceDiff, Number(targetLatestPrice.price), priceConfig.priceDeviation)
        \/ AbsPctAtLeast(Number(sourceLatestPrice.conf), Number(sourceLatestPrice.price),
                         priceConfig.confidenceRatio)

\* shouldUpdate testing the target observation before the source observation
shouldUpdateTargetFirst(priceConfig, sourceLatestPrice, targetLatestPrice) ==
    IF targetLatestPrice = undefined THEN TRUE
    ELSE IF sourceLatestPrice = undefined THEN FALSE
    ELSE IF sourceLatestPrice.publishTime < targetLatestPrice.publishTime THEN FALSE
    ELSE ThresholdsReached(priceConfig, sourceLatestPrice, targetLatestPrice)

\* shouldUpdate refusing a feed that has no target observation
shouldUpdateNoBootstrap(priceConfig, sourceLatestPrice, targetLatestPrice) ==
    IF sourceLatestPrice = undefined THEN FALSE
    ELSE IF targetLatestPrice = undefined THEN FALSE
    ELSE IF sourceLatestPrice.publishTime < targetLatestPrice.publishTime THEN FALSE
    ELSE ThresholdsReached(priceConfig, sourceLatestPrice, targetLatestPrice)

\* shouldUpdate without the test for a source older than the target
shouldUpdateNoOlderCheck(priceConfig, sourceLatestPrice, targetLatestPrice) ==
    IF sourceLatestPrice = undefined THEN FALSE
    ELSE IF targetLatestPrice = undefined THEN TRUE
    ELSE ThresholdsReached(priceConfig, sourceLatestPrice, targetLatestPrice)

\* shouldUpdate with a strict comparison of the time difference
shouldUpdateStrictTime(priceConfig, sourceLatestPrice, targetLatestPrice) ==
    IF sourceLatestPrice = undefined THEN FALSE
    ELSE IF targetLatestPrice = undefined THEN TRUE
    ELSE IF sourceLatestPrice.publishTime < targetLatestPrice.publishTime THEN FALSE
    ELSE LET timeDifference == sourceLatestPrice.publishTime - targetLatestPrice.publishTime
             priceDiff == Abs(Number(sourceLatestPrice.price) - Number(targetLatestPrice.price))
         IN  \/ timeDifference > priceConfig.timeDifference
             \/ PctAtLeast(priceDiff, Number(targetLatestPrice.price), priceConfig.priceDeviation)
             \/ AbsPctAtLeast(Number(sourceLatestPrice.conf), Number(sourceLatestPrice.price),
                              priceConfig.confidenceRatio)

shouldUpdate(priceConfig, sourceLatestPrice, targetLatestPrice) ==
    IF sourceLatestPrice = undefined THEN FALSE
    ELSE IF targetLatestPrice = undefined THEN TRUE
    ELSE IF sourceLatestPrice.publishTime < targetLatestPrice.publishTime THEN FALSE
    ELSE LET timeDifference == sourceLatestPrice.publishTime - targetLatestPrice.publishTime
             priceDiff == Abs(Number(sourceLatestPrice.price) - Number(targetLatestPrice.price))
         IN  \/ timeDifference >= priceConfig.timeDifference
             \/ PctAtLeast(priceDiff, Number(targetLatestPrice.price), priceConfig.priceDeviation)
             \/ AbsPctAtLeast(Number(sourceLatestPrice.conf), Number(sourceLatestPrice.price),
                              priceConfig.confidenceRatio)

----------------------------------------------------------------------------
(* The batcher: the for-of loop of start().                                *)

\* listener.getLatestPriceInfo(priceId)
getLatestPriceInfo(listener, priceId) == listener[priceId]

\* the baseline without the increment
PubTimeNoIncrement(targetLatestPrice) ==
    IF targetLatestPrice = undefined THEN 0 ELSE targetLatestPrice.publishTime

\* (targetLatestPrice?.publishTime || 0) + 1
PubTimeToPush(targetLatestPrice) ==
    (IF targetLatestPrice = undefined THEN 0
     ELSE IF targetLatestPrice.publishTime = 0 THEN 0
     ELSE targetLatestPrice.publishTime) + 1

\* the for-of loop pushing a selected feed twice
RECURSIVE BatchLoopPushesTwice(_, _, _, _, _)
BatchLoopPushesTwice(configs, src, tgt, pricesToPush, pubTimesToPush) ==
    IF configs = <<>>
    THEN [pricesToPush |-> pricesToPush, pubTimesToPush |-> pubTimesToPush]
    ELSE LET priceConfig == Head(configs)
             targetLatestPrice == getLatestPriceInfo(tgt, priceConfig.id)
             sourceLatestPrice == getLatestPriceInfo(src, priceConfig.id)
         IN  IF shouldUpdate(priceConfig, sourceLatestPrice, targetLatestPrice)
             THEN BatchLoopPushesTwice(Tail(configs), src, tgt,
                      pricesToPush \o <<priceConfig, priceConfig>>,
                      pubTimesToPush \o <<PubTimeToPush(targetLatestPrice),
                                          PubTimeToPush(targetLatestPrice)>>)
             ELSE BatchLoopPushesTwice(Tail(configs), src, tgt, pricesToPush, pubTimesToPush)

RECURSIVE BatchLoop(_, _, _, _, _)
BatchLoop(configs, src, tgt, pricesToPush, pubTimesToPush) ==
    IF configs = <<>>
    THEN [pricesToPush |-> pricesToPush, pubTimesToPush |-> pubTimesToPush]
    ELSE LET priceConfig == Head(configs)
             targetLatestPrice == getLatestPriceInfo(tgt, priceConfig.id)
             sourceLatestPrice == getLatestPriceInfo(src, priceConfig.id)
         IN  IF shouldUpdate(priceConfig, sourceLatestPrice, targetLatestPrice)
             THEN BatchLoop(Tail(configs), src, tgt,
                            Append(pricesToPush, priceConfig),
                            Append(pubTimesToPush, PubTimeToPush(targetLatestPrice)))
             ELSE BatchLoop(Tail(configs), src, tgt, pricesToPush, pubTimesToPush)

SelectBatch(configs, src, tgt) == BatchLoop(configs, src, tgt, <<>>, <<>>)

----------------------------------------------------------------------------
(* Pusher.pushUpdates: one call per iteration of start().                  *)

\* no pushUpdates call made yet in this iteration.  calls: the external calls
\* made so far, by name; requested / sent: the arguments of the pending fetch
\* and of the submitted transaction; reports: the outcomes the handlers logged
IdlePipe ==
    [pc |-> "idle", promise |-> "none", pricesToPush |-> <<>>, pubTimesToPush |-> <<>>,
     priceIds |-> <<>>, priceFeedUpdateData |-> <<>>, requested |-> <<>>, sent |-> <<>>,
     calls |-> <<>>, reports |-> <<>>, err |-> <<>>, threw |-> FALSE]

addLeading0x(id) == <<"0x", id>>

\* the update data the price service returns for priceIds: one entry per id
UpdateData(priceIds) == [i \in DOMAIN priceIds |-> <<"vaa", priceIds[i]>>]

\* the fee the contract quotes for n updates
UpdateFee(n) == n

\* the locals of a call that has ended are gone
Release(p) ==
    [p EXCEPT !.pricesToPush = <<>>, !.pubTimesToPush = <<>>, !.priceIds = <<>>,
              !.priceFeedUpdateData = <<>>, !.requested = <<>>, !.sent = <<>>]

\* pushUpdates without the early return on an empty batch
PushUpdatesNoEmptyCheck(pricesToPush, pubTimesToPush) ==
    LET priceIds == [i \in DOMAIN pricesToPush |-> addLeading0x(pricesToPush[i].id)]
    IN  [IdlePipe EXCEPT
            !.pc = "fetching", !.promise = "pending",
            !.pricesToPush = pricesToPush, !.pubTimesToPush = pubTimesToPush,
            !.priceIds = priceIds,
            !.requested = priceIds,
            !.calls = <<"getPriceFeedsUpdateData">>]

\* pushUpdates(pricesToPush, pubTimesToPush) up to its first await
PushUpdatesCall(pricesToPush, pubTimesToPush) ==
    IF Len(pricesToPush) = 0
    THEN [IdlePipe EXCEPT !.pc = "returned", !.promise = "resolved"]
    ELSE LET priceIds == [i \in DOMAIN pricesToPush |-> addLeading0x(pricesToPush[i].id)]
         IN  [IdlePipe EXCEPT
                 !.pc = "fetching", !.promise = "pending",
                 !.pricesToPush = pricesToPush, !.pubTimesToPush = pubTimesToPush,
                 !.priceIds = priceIds,
                 !.requested = priceIds,
                 !.calls = <<"getPriceFeedsUpdateData">>]

\* getPriceFeedsUpdateData resolved: log, then call getUpdateFee(length)
OnUpdateData(p, priceFeedUpdateData) ==
    [p EXCEPT !.pc = "estimating", !.priceFeedUpdateData = priceFeedUpdateData,
              !.calls = Append(@, "getUpdateFee")]

\* the submit passing the baselines in reverse order
OnUpdateFeeReversed(p, updateFee) ==
    [p EXCEPT !.pc = "sending", !.promise = "resolved",
              !.sent = [priceFeedUpdateData |-> p.priceFeedUpdateData,
                        priceIds |-> p.priceIds,
                        pubTimesToPush |->
                            [i \in DOMAIN p.pubTimesToPush |->
                                p.pubTimesToPush[Len(p.pubTimesToPush) + 1 - i]],
                        value |-> updateFee],
              !.calls = Append(@, "updatePriceFeedsIfNecessary")]

\* the submit taking its baselines from the target listener as it is now
OnUpdateFeeRereads(p, updateFee) ==
    [p EXCEPT !.pc = "sending", !.promise = "resolved",
              !.sent = [priceFeedUpdateData |-> p.priceFeedUpdateData,
                        priceIds |-> p.priceIds,
                        pubTimesToPush |->
                            [i \in DOMAIN p.pricesToPush |->
                                PubTimeToPush(getLatestPriceInfo(target, p.pricesToPush[i].id))],
                        value |-> updateFee],
              !.calls = Append(@, "updatePriceFeedsIfNecessary")]

\* getUpdateFee resolved: send the transaction, attach the handlers, return
OnUpdateFee(p, updateFee) ==
    [p EXCEPT !.pc = "sending", !.promise = "resolved",
              !.sent = [priceFeedUpdateData |-> p.priceFeedUpdateData,
                        priceIds |-> p.priceIds,
                        pubTimesToPush |-> p.pubTimesToPush,
                        value |-> updateFee],
              !.calls = Append(@, "updatePriceFeedsIfNecessary")]

\* an awaited call rejected: pushUpdates has no try/catch, its promise rejects
OnReject(p, at) == [Release(p) EXCEPT !.pc = at, !.promise = "rejected"]

\* .on("transactionHash", ...)
OnTransactionHash(p) == [p EXCEPT !.pc = "hashed", !.reports = Append(@, "accepted")]

\* the error handler with the insufficient-funds test first
ClassifyFundsFirst(message) ==
    IF Includes(message, NoFunds) THEN "fatal-insufficient-funds"
    ELSE IF Includes(message, NoFreshPrices) THEN "skipped-already-fresh"
    ELSE IF Includes(message, WrongNonce) THEN "skipped-nonce-conflict"
    ELSE "unknown-error"

\* the error handler without the insufficient-funds branch
ClassifyNoFatal(message) ==
    IF Includes(message, NoFreshPrices) THEN "skipped-already-fresh"
    ELSE IF Includes(message, WrongNonce) THEN "skipped-nonce-conflict"
    ELSE "unknown-error"

\* the branch of the error handler a message takes
Classify(message) ==
    IF Includes(message, NoFreshPrices) THEN "skipped-already-fresh"
    ELSE IF Includes(message, WrongNonce) THEN "skipped-nonce-conflict"
    ELSE IF Includes(message, NoFunds) THEN "fatal-insufficient-funds"
    ELSE "unknown-error"

\* the error handler rethrowing what it does not recognise
OnErrorRethrowsUnknown(p, message) ==
    [Release(p) EXCEPT
        !.pc = "errored", !.err = <<message>>,
        !.reports = Append(@, Classify(message)),
        !.threw = (Classify(message) \in {"fatal-insufficient-funds", "unknown-error"})]

\* .on("error", ...): only the insufficient-funds branch throws
OnError(p, message) ==
    [Release(p) EXCEPT
        !.pc = "errored", !.err = <<message>>,
        !.reports = Append(@, Classify(message)),
        !.threw = (Classify(message) = "fatal-insufficient-funds")]

----------------------------------------------------------------------------
(* The state machine.                                                      *)

NoObservations == [id \in FeedIds |-> undefined]

\* the state after construction, before start() runs
Init ==
    /\ priceConfigs = <<FeedA>>
    /\ source = NoObservations
    /\ target = NoObservations
    /\ loop = "batch"
    /\ tick = 0
    /\ pipe = [t \in 1..MaxTicks |-> IdlePipe]
    /\ process = "running"

\* one iteration of for(;;) up to `await sleep`: the batcher, then the
\* pushUpdates call, which is not awaited
Tick ==
    /\ process = "running" /\ loop = "batch" /\ tick < MaxTicks
    /\ LET b == SelectBatch(priceConfigs, source, target)
       IN  pipe' = [pipe EXCEPT ![tick + 1] = PushUpdatesCall(b.pricesToPush, b.pubTimesToPush)]
    /\ tick' = tick + 1
    /\ loop' = "sleep"
    /\ UNCHANGED <<priceConfigs, source, target, process>>

\* sleep(cooldownDuration * 1000) resolves
Wake ==
    /\ process = "running" /\ loop = "sleep"
    /\ loop' = "batch"
    /\ UNCHANGED <<priceConfigs, source, target, tick, pipe, process>>

\* a listener receives an observation of a configured feed
SourceUpdate ==
    /\ process = "running"
    /\ \E id \in ConfiguredIds, info \in SchedInfos :
          /\ source[id] # info
          /\ source' = [source EXCEPT ![id] = info]
    /\ UNCHANGED <<priceConfigs, target, loop, tick, pipe, process>>

TargetUpdate ==
    /\ process = "running"
    /\ \E id \in ConfiguredIds, info \in SchedInfos :
          /\ target[id] # info
          /\ target' = [target EXCEPT ![id] = info]
    /\ UNCHANGED <<priceConfigs, source, loop, tick, pipe, process>>

\* what the host does with an exception nobody catches (an unhandled
\* rejection, a throw out of an event handler): kill the process, or go on
Uncaught == process' \in {"running", "exited"}

FetchOk ==
    /\ process = "running"
    /\ \E t \in 1..tick :
          /\ pipe[t].pc = "fetching"
          /\ pipe' = [pipe EXCEPT ![t] = OnUpdateData(pipe[t], UpdateData(pipe[t].priceIds))]
    /\ UNCHANGED <<priceConfigs, source, target, loop, tick, process>>

FetchFail ==
    /\ process = "running"
    /\ \E t \in 1..tick :
          /\ pipe[t].pc = "fetching"
          /\ pipe' = [pipe EXCEPT ![t] = OnReject(pipe[t], "fetchRejected")]
    /\ Uncaught
    /\ UNCHANGED <<priceConfigs, source, target, loop, tick>>

FeeOk ==
    /\ process = "running"
    /\ \E t \in 1..tick :
          /\ pipe[t].pc = "estimating"
          /\ pipe' = [pipe EXCEPT ![t] =
                         OnUpdateFee(pipe[t], UpdateFee(Len(pipe[t].priceFeedUpdateData)))]
    /\ UNCHANGED <<priceConfigs, source, target, loop, tick, process>>

FeeFail ==
    /\ process = "running"
    /\ \E t \in 1..tick :
          /\ pipe[t].pc = "estimating"
          /\ pipe' = [pipe EXCEPT ![t] = OnReject(pipe[t], "feeRejected")]
    /\ Uncaught
    /\ UNCHANGED <<priceConfigs, source, target, loop, tick>>

TxHash ==
    /\ process = "running"
    /\ \E t \in 1..tick :
          /\ pipe[t].pc = "sending"
          /\ pipe' = [pipe EXCEPT ![t] = OnTransactionHash(pipe[t])]
    /\ UNCHANGED <<priceConfigs, source, target, loop, tick, process>>

\* the send fails, before or after the transaction hash was announced
TxError ==
    /\ process = "running"
    /\ \E t \in 1..tick, message \in Messages :
          /\ pipe[t].pc \in {"sending", "hashed"}
          /\ pipe' = [pipe EXCEPT ![t] = OnError(pipe[t], message)]
          /\ IF pipe'[t].threw THEN Uncaught ELSE process' = process
    /\ UNCHANGED <<priceConfigs, source, target, loop, tick>>

Next ==
    \/ Tick \/ Wake \/ SourceUpdate \/ TargetUpdate
    \/ FetchOk \/ FetchFail \/ FeeOk \/ FeeFail \/ TxHash \/ TxError

Spec == Init /\ [][Next]_vars

----------------------------------------------------------------------------
(* One batcher pass and its submission, from any listener snapshot.        *)

ConfigLists == {<<FeedA, FeedB>>, <<FeedB, FeedA>>, <<FeedA, FeedA>>}

Snapshots(ids) ==
    {f \in [FeedIds -> BatchInfos \cup {undefined}] :
        \A id \in FeedIds \ ids : f[id] = undefined}

InitBatch ==
    /\ priceConfigs \in ConfigLists
    /\ source \in Snapshots(ConfiguredIds)
    /\ target \in Snapshots(ConfiguredIds)
    /\ loop = "batch"
    /\ tick = 0
    /\ pipe = [t \in 1..MaxTicks |-> IdlePipe]
    /\ process = "running"

NextBatch == Tick \/ FetchOk \/ FeeOk

SpecBatch == InitBatch /\ [][NextBatch]_vars

----------------------------------------------------------------------------
(* shouldUpdate on one feed, for every configuration and pair of           *)
(* observations, as the batcher applies it.                                *)

EvalPcts == {0, 50, 100}

EvalPrices == {<<"-", "2">>, <<"-", "1">>, <<"0">>, <<"1">>, <<"2">>}

EvalConfs == {<<"0">>, <<"1">>}

EvalConfigs ==
    {[alias |-> "A/USD", id |-> "aa",
      timeDifference |-> td, priceDeviation |-> pd, confidenceRatio |-> cr] :
        td \in 0..MaxThreshold, pd \in EvalPcts, cr \in EvalPcts}

EvalInfos == {PriceInfo(t, p, c) : t \in 0..MaxEvalTime, p \in EvalPrices, c \in EvalConfs}

InitEval ==
    /\ \E cfg \in EvalConfigs : priceConfigs = <<cfg>>
    /\ \E s \in EvalInfos \cup {undefined} : source = [NoObservations EXCEPT !["aa"] = s]
    /\ \E t \in EvalInfos \cup {undefined} : target = [NoObservations EXCEPT !["aa"] = t]
    /\ loop = "batch"
    /\ tick = 0
    /\ pipe = [t \in 1..MaxTicks |-> IdlePipe]
    /\ process = "running"

NextEval == Tick

SpecEval == InitEval /\ [][NextEval]_vars

----------------------------------------------------------------------------
(* Properties.                                                             *)

Ticks == 1..MaxTicks

Last(s) == s[Len(s)]

\* the pipeline of a tick is still running: its outcome is not known yet
InFlight(p) == p.pc \in {"fetching", "estimating", "sending"}

\* start() has neither a return nor a throw path (its body is for(;;) and the
\* pushUpdates promise is dropped): its loop ends only with the process
LoopEnded == process = "exited"

Started(t) == pipe[t].pc # "idle"

Errored(t) == pipe[t].err # <<>>

\* the step in which the error handler of tick t runs
ErrorStep(t) == pipe[t].err = <<>> /\ pipe'[t].err # <<>>

\* C1: once a later tick has begun, the submission pipeline of every earlier
\* tick has completed, so no two ticks' submissions are in flight together.
C1_TicksSequential ==
    \A t \in Ticks : t < tick => ~InFlight(pipe[t])

\* C2: once a submit error was classified insufficient funds, the loop of
\* start() has ended.
C2_FatalEndsLoop ==
    \A t \in Ticks : pipe[t].threw => LoopEnded

\* C3: a failed payload fetch aborts the tick (no fee estimate, no submit) and
\* no failure escapes pushUpdates.
C3_FetchFailureContained ==
    \A t \in Ticks :
        pipe[t].pc = "fetchRejected" =>
            /\ pipe[t].calls = <<"getPriceFeedsUpdateData">>
            /\ pipe[t].promise # "rejected"

\* C4: pushUpdates ends abnormally (rejected promise or thrown exception)
\* only when the submit error was classified insufficient funds.
C4_OnlyFatalFails ==
    \A t \in Ticks :
        (pipe[t].promise = "rejected" \/ pipe[t].threw) =>
            /\ pipe[t].reports # <<>>
            /\ Last(pipe[t].reports) = "fatal-insufficient-funds"

\* C5 as stated: every submit error whose message contains the
\* insufficient-funds marker is classified fatal, whatever else it contains.
C5_FundsAlwaysFatal ==
    \A t \in Ticks :
        (Errored(t) /\ NoFunds \in pipe[t].err[1]) =>
            /\ Last(pipe[t].reports) = "fatal-insufficient-funds"
            /\ pipe[t].threw

\* C5 amended: a submit error whose message contains the insufficient-funds
\* marker and neither the no-fresh-prices nor the nonce-conflict marker is
\* classified fatal and rethrown.
C5_FundsAloneFatal ==
    \A t \in Ticks :
        (Errored(t) /\ NoFunds \in pipe[t].err[1]
                    /\ NoFreshPrices \notin pipe[t].err[1]
                    /\ WrongNonce \notin pipe[t].err[1]) =>
            /\ Last(pipe[t].reports) = "fatal-insufficient-funds"
            /\ pipe[t].threw

C5_Witness ==
    \E t \in Ticks : Errored(t) /\ pipe[t].err[1] = {NoFunds} /\ pipe[t].threw

\* C6: a submit error whose message contains the no-fresh-prices or the
\* nonce-conflict marker is a benign skip: the handler reports
\* skipped-already-fresh or skipped-nonce-conflict, throws nothing, and leaves
\* the process running and the scheduler where it was.
C6_BenignSkip ==
    [][\A t \in Ticks :
          (ErrorStep(t) /\ (NoFreshPrices \in pipe'[t].err[1] \/ WrongNonce \in pipe'[t].err[1])) =>
              /\ Last(pipe'[t].reports) =
                     (IF NoFreshPrices \in pipe'[t].err[1]
                      THEN "skipped-already-fresh" ELSE "skipped-nonce-conflict")
              /\ ~pipe'[t].threw
              /\ pipe'[t].promise = "resolved"
              /\ process' = "running"
              /\ loop' = loop /\ tick' = tick]_vars

\* a benign skip in tick 1 of a message that also carries the funds marker,
\* and the scheduler went on to tick 2
C6_Witness ==
    /\ Errored(1) /\ NoFreshPrices \in pipe[1].err[1] /\ NoFunds \in pipe[1].err[1]
    /\ Last(pipe[1].reports) = "skipped-already-fresh"
    /\ Started(2) /\ Errored(2) /\ pipe[2].err[1] = {WrongNonce}
    /\ process = "running"

\* C7: a submit error whose message contains none of the three markers is
\* reported as unknown-error; the handler throws nothing and leaves the
\* process running and the scheduler where it was.
C7_UnknownError ==
    [][\A t \in Ticks :
          (ErrorStep(t) /\ pipe'[t].err[1] \cap Markers = {}) =>
              /\ Last(pipe'[t].reports) = "unknown-error"
              /\ ~pipe'[t].threw
              /\ pipe'[t].promise = "resolved"
              /\ process' = "running"
              /\ loop' = loop /\ tick' = tick]_vars

\* an unknown error in tick 1, and tick 2 has started its own submission
C7_Witness ==
    /\ Errored(1) /\ pipe[1].err[1] = {} /\ Last(pipe[1].reports) = "unknown-error"
    /\ pipe[2].pc = "fetching"
    /\ process = "running"

\* C8: a tick whose batch is empty makes no payload fetch, no fee estimate
\* and no submit call, and its pipeline ends at once with no outcome; nothing
\* happens in it later.
C8_EmptyBatchNoop ==
    [][\A t \in Ticks :
          /\ (pipe[t].pc = "idle" /\ pipe'[t].pc # "idle"
                /\ SelectBatch(priceConfigs, source, target).pricesToPush = <<>>) =>
                 /\ pipe'[t].pc = "returned"
                 /\ pipe'[t].promise = "resolved"
                 /\ pipe'[t].calls = <<>>
                 /\ pipe'[t].reports = <<>>
                 /\ pipe'[t].requested = <<>> /\ pipe'[t].sent = <<>>
          /\ pipe[t].pc = "returned" => pipe'[t] = pipe[t]]_vars

\* an empty tick, followed by a tick that does submit
C8_Witness ==
    /\ pipe[1].pc = "returned" /\ pipe[1].calls = <<>>
    /\ pipe[2].pc = "sending"

\* the feed at position i of the batch of tick t
BatchId(t, i) == pipe[t].pricesToPush[i].id

\* C9: for every feed in the batch, the baseline is the target observation's
\* publishTime + 1 when the target observation exists (publishTime 0
\* included) and 1 when it is absent.
C9_Baseline ==
    \A t \in Ticks : \A i \in DOMAIN pipe[t].pricesToPush :
        pipe[t].pubTimesToPush[i] =
            (IF target[BatchId(t, i)] = undefined THEN 1
             ELSE target[BatchId(t, i)].publishTime + 1)

\* a batch of two feeds: one whose target was published at time 0, one whose
\* target has a later publish time
C9_Witness ==
    /\ Len(pipe[1].pricesToPush) = 2
    /\ target[BatchId(1, 1)] # undefined /\ target[BatchId(1, 1)].publishTime = 0
    /\ target[BatchId(1, 2)] # undefined /\ target[BatchId(1, 2)].publishTime > 0

\* C10: the baselines of a batch are computed from the target observations
\* read when the batch is selected, the same ones the staleness decision
\* used; they do not change while the fetch or the fee estimate is pending,
\* and the submit call carries exactly them.
C10_BaselineCaptured ==
    [][\A t \in Ticks :
          /\ (pipe[t].pc = "idle" /\ pipe'[t].pc = "fetching") =>
                \A i \in DOMAIN pipe'[t].pricesToPush :
                    LET cfg == pipe'[t].pricesToPush[i]
                    IN  /\ shouldUpdate(cfg, source[cfg.id], target[cfg.id])
                        /\ pipe'[t].pubTimesToPush[i] =
                              (IF target[cfg.id] = undefined THEN 1
                               ELSE target[cfg.id].publishTime + 1)
          /\ (pipe[t].pc = "fetching" /\ pipe'[t].pc = "estimating") =>
                pipe'[t].pubTimesToPush = pipe[t].pubTimesToPush
          /\ (pipe[t].pc = "estimating" /\ pipe'[t].pc = "sending") =>
                pipe'[t].sent.pubTimesToPush = pipe[t].pubTimesToPush]_vars

\* a submit whose baseline is no longer the one the target listener would give
C10_Witness ==
    \E t \in Ticks :
        /\ pipe[t].pc = "sending"
        /\ \E i \in DOMAIN pipe[t].pricesToPush :
              pipe[t].sent.pubTimesToPush[i] # PubTimeToPush(target[BatchId(t, i)])

\* C11 as stated: for every feed of a batch whose target observation exists,
\* the source observation the decision used has publishTime >= the baseline,
\* that is, strictly greater than the target publishTime.
C11_PushStrictlyNewer ==
    \A t \in Ticks : \A i \in DOMAIN pipe[t].pricesToPush :
        target[BatchId(t, i)] # undefined =>
            source[BatchId(t, i)].publishTime >= pipe[t].pubTimesToPush[i]

\* C12 as stated: whatever the configured feed list, no feed identifier
\* appears twice in a batch.
C12_NoDuplicate ==
    \A t \in Ticks : \A i, j \in DOMAIN pipe[t].pricesToPush :
        i # j => BatchId(t, i) # BatchId(t, j)

\* the identifiers of the configured feeds are pairwise distinct
DistinctConfigs ==
    \A i, j \in DOMAIN priceConfigs : i # j => priceConfigs[i].id # priceConfigs[j].id

\* C12 amended: when the configured feed list holds no identifier twice, no
\* feed identifier appears twice in the batch passed to pushUpdates.
C12_NoDuplicateOfDistinct ==
    DistinctConfigs => C12_NoDuplicate

\* both configured feeds selected, from a list without repetition
C12_Witness ==
    /\ DistinctConfigs
    /\ Len(pipe[1].pricesToPush) = 2
    /\ pipe[1].pc = "fetching"

\* the staleness decision of the batcher on the listeners as they are
Stale(priceConfig) == shouldUpdate(priceConfig, source[priceConfig.id], target[priceConfig.id])

\* C13: the batch is the selected feeds in the order of the configured list;
\* the payload is requested for exactly its identifiers (0x-prefixed), and the
\* submit carries that payload, the identifier list and the baseline list as
\* arrays of equal length, the i-th baseline being that of the i-th identifier.
C13_ParallelArrays ==
    \A t \in Ticks :
        LET p == pipe[t]
            ids == [i \in DOMAIN p.pricesToPush |-> <<"0x", p.pricesToPush[i].id>>]
        IN  /\ p.pc \in {"fetching", "estimating", "sending"} =>
                  /\ p.pricesToPush = SelectSeq(priceConfigs, Stale)
                  /\ p.requested = ids
            /\ p.pc \in {"estimating", "sending"} =>
                  /\ Len(p.priceFeedUpdateData) = Len(ids)
                  /\ \A i \in DOMAIN ids : p.priceFeedUpdateData[i] = <<"vaa", ids[i]>>
            /\ p.pc = "sending" =>
                  /\ p.sent.priceFeedUpdateData = p.priceFeedUpdateData
                  /\ p.sent.priceIds = ids
                  /\ Len(p.sent.pubTimesToPush) = Len(p.sent.priceIds)
                  /\ \A i \in DOMAIN ids :
                        p.sent.pubTimesToPush[i] =
                            (IF target[BatchId(t, i)] = undefined THEN 1
                             ELSE target[BatchId(t, i)].publishTime + 1)

\* a submit of feed bb then feed aa, configured in that order, with two
\* different baselines
C13_Witness ==
    /\ priceConfigs = <<FeedB, FeedA>>
    /\ pipe[1].pc = "sending"
    /\ pipe[1].sent.priceIds = <<<<"0x", "bb">>, <<"0x", "aa">>>>
    /\ pipe[1].sent.pubTimesToPush[1] # pipe[1].sent.pubTimesToPush[2]

\* the number of times fn was called in the pipeline p
Count(p, fn) == Cardinality({i \in DOMAIN p.calls : p.calls[i] = fn})

\* C14: a batch is fetched and submitted at most once in its tick, and its
\* submission reports at most one outcome: never an accepted transaction hash
\* and an error outcome both.
C14_OneOutcome ==
    \A t \in Ticks :
        /\ Len(pipe[t].reports) <= 1
        /\ Count(pipe[t], "getPriceFeedsUpdateData") <= 1
        /\ Count(pipe[t], "updatePriceFeedsIfNecessary") <= 1

\* C15: as long as no fatal outcome occurred, the scheduler is going to run
\* another tick, whatever the outcomes of the ticks so far.
C15_LoopGoesOn ==
    ((\A t \in Ticks : ~pipe[t].threw) /\ tick < MaxTicks) => ENABLED (Tick \/ Wake)

\* Under SpecEval: the one configured feed, its two observations, and what
\* the batcher decided about it.
EvalConfig == priceConfigs[1]
sourceObs == source[EvalConfig.id]
targetObs == target[EvalConfig.id]
Decided == pipe[1].pc # "idle"
NeedsUpdate == pipe[1].pc = "fetching" /\ pipe[1].pricesToPush = <<EvalConfig>>
BothPresent == sourceObs # undefined /\ targetObs # undefined
timeDiff == sourceObs.publishTime - targetObs.publishTime

\* the signals as section 4.1 defines them, on exact arithmetic (a zero
\* denominator with a non-zero numerator counts as reached)
DeviationReached ==
    LET s == Number(sourceObs.price)
        t == Number(targetObs.price)
    IN  IF t = 0 THEN s # 0 ELSE Abs(s - t) * 100 >= EvalConfig.priceDeviation * Abs(t)

ConfidenceReached ==
    LET c == Number(sourceObs.conf)
        s == Number(sourceObs.price)
    IN  IF s = 0 THEN c # 0 ELSE Abs(c) * 100 >= EvalConfig.confidenceRatio * Abs(s)

\* C16: whatever the configuration and the target observation, a feed whose
\* source observation is absent is not selected and the batch stays empty.
C16_NoSource ==
    (Decided /\ sourceObs = undefined) =>
        /\ ~NeedsUpdate
        /\ pipe[1].pricesToPush = <<>> /\ pipe[1].pc = "returned"

\* neither observation exists and every threshold is zero
C16_Witness ==
    /\ Decided /\ sourceObs = undefined /\ targetObs = undefined
    /\ EvalConfig.timeDifference = 0 /\ EvalConfig.priceDeviation = 0
    /\ EvalConfig.confidenceRatio = 0

\* C17: whatever the thresholds and the source values, a feed with a source
\* observation and no target observation is selected.
C17_Bootstrap ==
    (Decided /\ sourceObs # undefined /\ targetObs = undefined) => NeedsUpdate

\* bootstrap with the largest thresholds and a source of price 0, conf 0
C17_Witness ==
    /\ Decided /\ targetObs = undefined /\ sourceObs # undefined
    /\ sourceObs.price = <<"0">> /\ sourceObs.conf = <<"0">>
    /\ EvalConfig.timeDifference = MaxThreshold /\ EvalConfig.priceDeviation = 100
    /\ EvalConfig.confidenceRatio = 100
    /\ NeedsUpdate

\* C18: with both observations present and the source published before the
\* target, the feed is not selected, whatever the deviation, the confidence
\* ratio and the thresholds.
C18_OlderSource ==
    (Decided /\ BothPresent /\ sourceObs.publishTime < targetObs.publishTime) =>
        ~NeedsUpdate

\* an older source with a deviating price, a wide confidence and zero
\* thresholds
C18_Witness ==
    /\ Decided /\ BothPresent /\ sourceObs.publishTime < targetObs.publishTime
    /\ sourceObs.price = <<"2">> /\ targetObs.price = <<"1">> /\ sourceObs.conf = <<"1">>
    /\ EvalConfig.timeDifference = 0 /\ EvalConfig.priceDeviation = 0
    /\ EvalConfig.confidenceRatio = 0
    /\ ~NeedsUpdate

\* C19: with both observations present and the source not older than the
\* target, a time difference equal to the threshold selects the feed, and a
\* time difference of threshold - 1 with neither the deviation nor the
\* confidence signal reaching its threshold does not.
C19_TimeInclusive ==
    (Decided /\ BothPresent /\ timeDiff >= 0) =>
        /\ timeDiff = EvalConfig.timeDifference => NeedsUpdate
        /\ (timeDiff = EvalConfig.timeDifference - 1
              /\ ~DeviationReached /\ ~ConfidenceReached) => ~NeedsUpdate

\* selected by the time difference alone, exactly at the threshold
C19_Witness ==
    /\ Decided /\ BothPresent
    /\ EvalConfig.timeDifference > 0 /\ timeDiff = EvalConfig.timeDifference
    /\ ~DeviationReached /\ ~ConfidenceReached
    /\ NeedsUpdate

\* C20 as stated: with both observations present, the source not older than
\* the target and non-zero prices of either sign, the feed is selected if and
\* only if one of the three signals reaches its threshold, both ratios being
\* taken over the absolute value of their denominator.
C20_SignalsDecide ==
    (Decided /\ BothPresent /\ timeDiff >= 0
       /\ Number(sourceObs.price) # 0 /\ Number(targetObs.price) # 0) =>
        (NeedsUpdate <=>
            \/ timeDiff >= EvalConfig.timeDifference
            \/ DeviationReached
            \/ ConfidenceReached)

====
